---- MODULE Spec2Model ----
(***************************************************************************)
(* A model of sentry.client.base.SentryClient (src/sentry/client/base.py): *)
(* the three entry points create_from_text / create_from_record /          *)
(* create_from_exception, the shared process() pipeline (defaults,         *)
(* checksum, thrashing gate, filters, data coercion) and send().           *)
(*                                                                         *)
(* Keyword-argument bags (kwargs) are functions from field names to        *)
(* values; a field that was not passed is not in the DOMAIN.  Python's     *)
(* None / empty value of a field is the empty value of its type: <<>> for  *)
(* message, traceback and view, "" for plain strings.  Text is a sequence  *)
(* of tokens so that str.startswith and %-formatting are computed.         *)
(***************************************************************************)
EXTENDS Integers, Sequences, FiniteSets, TLC

VARIABLES
    conf,        \* sentry.conf: the settings read by the client
    cache,       \* django.core.cache.cache: key -> [count, expires]
    now,         \* the clock the cache expires entries by
    hist,        \* history of process() calls: [key, time, fault, suppressed]
    last,        \* what the most recent entry-point call did (its outcome)
    walk,        \* position of the frame walk of create_from_exception
    procs        \* concurrent calls of process(): thread -> position in the gate

vars == <<conf, cache, now, hist, last, walk, procs>>

(***************************************************************************)
(* Bounds of the model.                                                    *)
(***************************************************************************)
MaxFrames == 4      \* longest traceback walked
MaxCalls == 4       \* entry-point calls in one behaviour
MaxTime == 3        \* the clock stops here
MaxEndpoints == 3   \* longest conf.REMOTE_URL

(***************************************************************************)
(* logging levels (logging.ERROR is the default level of process()).       *)
(***************************************************************************)
ERROR == 40
WARNING == 30

(***************************************************************************)
(* kwargs helpers: dict membership, get, item assignment, pop, setdefault. *)
(***************************************************************************)
Has(kw, f) == f \in DOMAIN kw

Get(kw, f, d) == IF f \in DOMAIN kw THEN kw[f] ELSE d

Put(kw, f, v) == [k \in (DOMAIN kw) \cup {f} |-> IF k = f THEN v ELSE kw[k]]

Pop(kw, f) == [k \in (DOMAIN kw) \ {f} |-> kw[k]]

SetDefault(kw, f, v) == IF f \in DOMAIN kw THEN kw ELSE Put(kw, f, v)

\* dict.update, or merging keyword arguments: the entries of b win
Update(kw, b) == [k \in (DOMAIN kw) \cup (DOMAIN b) |-> IF k \in DOMAIN b THEN b[k] ELSE kw[k]]

EmptyKw == [k \in {} |-> 0]

(***************************************************************************)
(* Origin resolution: the frame walk of create_from_exception.             *)
(* A frame is [mod, fn, ok]; ok = FALSE when f_globals['__name__'] or      *)
(* f_code.co_name cannot be read (the bare except at line 174).            *)
(***************************************************************************)
\* value.startswith(k)
StartsWith(value, k) ==
    /\ Len(k) <= Len(value)
    /\ \A i \in 1..Len(k) : value[i] = k[i]

\* contains(iterator, value), lines 159-163
contains(iterator, value) == \E k \in iterator : StartsWith(value, k)

\* '.'.join([frame.f_globals['__name__'], frame.f_code.co_name]), line 173
Ident(frame) == frame.mod \o <<".">> \o frame.fn

\* modules = get_installed_apps() plus conf.INCLUDE_PATHS, lines 150-152
Modules(c) == c.INSTALLED_APPS \cup c.INCLUDE_PATHS

\* best_guess = None; view = None, lines 169-170
WalkStart == [best_guess |-> <<>>, view |-> <<>>, stopped |-> FALSE]

\* the mutant of WalkStep: an excluded frame overwrites the best guess
WalkStepOverwrite(c, st, frame) ==
    IF st.stopped \/ ~frame.ok THEN st
    ELSE LET v == Ident(frame) IN
         IF contains(Modules(c), v)
         THEN [st EXCEPT !.view = v, !.best_guess = v]
         ELSE IF st.best_guess # <<>>
              THEN [st EXCEPT !.view = v, !.stopped = TRUE]
              ELSE [st EXCEPT !.view = v]

\* the mutant of WalkStep: the walk never stops on leaving the run
WalkStepNoBreak(c, st, frame) ==
    IF st.stopped \/ ~frame.ok THEN st
    ELSE LET v == Ident(frame) IN
         IF contains(Modules(c), v)
         THEN IF ~(contains(c.EXCLUDE_PATHS, v) /\ st.best_guess # <<>>)
              THEN [st EXCEPT !.view = v, !.best_guess = v]
              ELSE [st EXCEPT !.view = v]
         ELSE [st EXCEPT !.view = v]

\* one iteration of the for loop, lines 171-180
WalkStep(c, st, frame) ==
    IF st.stopped \/ ~frame.ok THEN st
    ELSE LET v == Ident(frame) IN
         IF contains(Modules(c), v)
         THEN IF ~(contains(c.EXCLUDE_PATHS, v) /\ st.best_guess # <<>>)
              THEN [st EXCEPT !.view = v, !.best_guess = v]
              ELSE [st EXCEPT !.view = v]
         ELSE IF st.best_guess # <<>>
              THEN [st EXCEPT !.view = v, !.stopped = TRUE]
              ELSE [st EXCEPT !.view = v]

\* the mutant of WalkResult: only an accepted best guess becomes the view
WalkResultBestOnly(st) == st.best_guess

\* if best_guess: view = best_guess, lines 181-182
WalkResult(st) == IF st.best_guess # <<>> THEN st.best_guess ELSE st.view

RECURSIVE WalkFrom(_, _, _)
WalkFrom(c, st, frames) ==
    IF frames = <<>> THEN st
    ELSE WalkFrom(c, WalkStep(c, st, Head(frames)), Tail(frames))

\* the whole resolution of lines 169-182 on a traceback
ResolveView(c, frames) == WalkResult(WalkFrom(c, WalkStart, frames))

(***************************************************************************)
(* Checksum engine (sentry.helpers.construct_checksum, not in this file):  *)
(* a digest of the class name if present, otherwise the first line of the  *)
(* message, plus the traceback text if present.  The digest is modelled as *)
(* an injective tagging of what is hashed.                                 *)
(***************************************************************************)
FirstLine(message) == IF message = <<>> THEN "" ELSE Head(message)

construct_checksum(kw) ==
    LET cls == Get(kw, "class_name", "")
        head == IF cls # "" THEN cls ELSE FirstLine(Get(kw, "message", <<>>))
    IN <<"digest", head, Get(kw, "traceback", <<>>)>>

(***************************************************************************)
(* The counter store (django.core.cache.cache) as process() uses it:       *)
(* add-if-absent with a timeout, and an increment that keeps the expiry    *)
(* and raises ValueError for a key that is not there.                      *)
(***************************************************************************)
Live(cch, key, t) == key \in DOMAIN cch /\ t < cch[key].expires

\* cache.add(cache_key, 1, conf.THRASHING_TIMEOUT), line 34
CacheAdd(cch, key, t, timeout) ==
    IF Live(cch, key, t)
    THEN [added |-> FALSE, cache |-> cch]
    ELSE [added |-> TRUE,
          cache |-> [k \in (DOMAIN cch) \cup {key} |->
                        IF k = key THEN [count |-> 1, expires |-> t + timeout]
                        ELSE cch[k]]]

\* the mutant of CacheIncr: the new count is returned but not stored, as
\* by a read and a write that another caller's increment overtakes
CacheIncrLost(cch, key, t) ==
    IF Live(cch, key, t)
    THEN [ok |-> TRUE, value |-> cch[key].count + 1, cache |-> cch]
    ELSE [ok |-> FALSE, value |-> 0, cache |-> cch]

\* the mutant of CacheIncr: every increment renews the expiry of the counter
CacheIncrTouch(cch, key, t) ==
    IF Live(cch, key, t)
    THEN [ok |-> TRUE, value |-> cch[key].count + 1,
          cache |-> [cch EXCEPT ![key].count = @ + 1, ![key].expires = @ + 1]]
    ELSE [ok |-> FALSE, value |-> 0, cache |-> cch]

\* cache.incr(cache_key), line 37; ok = FALSE is the ValueError of line 38
CacheIncr(cch, key, t) ==
    IF Live(cch, key, t)
    THEN [ok |-> TRUE, value |-> cch[key].count + 1,
          cache |-> [cch EXCEPT ![key].count = @ + 1]]
    ELSE [ok |-> FALSE, value |-> 0, cache |-> cch]

\* cache_key = 'sentry:%s:%s' % (kwargs.get('class_name') or '', checksum), line 33
CacheKey(kw, checksum) == <<Get(kw, "class_name", ""), checksum>>

\* the mutant of GateEnabled: one of the two settings is enough
GateEnabledEither(c) == c.THRASHING_TIMEOUT # 0 \/ c.THRASHING_LIMIT # 0

\* if conf.THRASHING_TIMEOUT and conf.THRASHING_LIMIT, line 32
GateEnabled(c) == c.THRASHING_TIMEOUT # 0 /\ c.THRASHING_LIMIT # 0

\* the mutant of Thrashing: the limit itself is already too many
ThrashingAtLimit(c, thrash_count) == thrash_count >= c.THRASHING_LIMIT

\* if thrash_count > conf.THRASHING_LIMIT: return, lines 43-44
Thrashing(c, thrash_count) == thrash_count > c.THRASHING_LIMIT

\* the gate with a failed cache.incr read as "over the limit"
GateFailClosed(c, cch, t, kw, checksum, fault) ==
    LET key == CacheKey(kw, checksum)
        a == CacheAdd(cch, key, t, c.THRASHING_TIMEOUT)
        i == CacheIncr(cch, key, t)
    IN IF ~GateEnabled(c)
       THEN [raised |-> "", suppress |-> FALSE, cache |-> cch, used |-> FALSE]
       ELSE IF fault = "add_raises"
       THEN [raised |-> "CacheError", suppress |-> FALSE, cache |-> cch, used |-> TRUE]
       ELSE IF a.added
       THEN [raised |-> "", suppress |-> FALSE, cache |-> a.cache, used |-> TRUE]
       ELSE IF fault = "incr_other"
       THEN [raised |-> "CacheError", suppress |-> FALSE, cache |-> cch, used |-> TRUE]
       ELSE IF fault = "incr_fails" \/ ~i.ok
       THEN [raised |-> "", suppress |-> TRUE, cache |-> cch, used |-> TRUE]
       ELSE [raised |-> "", suppress |-> Thrashing(c, i.value), cache |-> i.cache,
             used |-> TRUE]

(***************************************************************************)
(* The thrashing gate, lines 32-44.  fault is what the counter store does  *)
(* in this call: "none", "add_raises" (cache.add raises), "incr_fails"     *)
(* (cache.incr raises ValueError or KeyError), "incr_other" (cache.incr    *)
(* raises something else).  Result: raised (the exception that leaves      *)
(* process), suppress, and the store afterwards.                           *)
(***************************************************************************)
Gate(c, cch, t, kw, checksum, fault) ==
    LET key == CacheKey(kw, checksum)
        a == CacheAdd(cch, key, t, c.THRASHING_TIMEOUT)
        i == CacheIncr(cch, key, t)
    IN IF ~GateEnabled(c)
       THEN [raised |-> "", suppress |-> FALSE, cache |-> cch, used |-> FALSE]
       ELSE IF fault = "add_raises"
       THEN [raised |-> "CacheError", suppress |-> FALSE, cache |-> cch, used |-> TRUE]
       ELSE IF a.added
       THEN [raised |-> "", suppress |-> FALSE, cache |-> a.cache, used |-> TRUE]
       ELSE IF fault = "incr_other"
       THEN [raised |-> "CacheError", suppress |-> FALSE, cache |-> cch, used |-> TRUE]
       ELSE IF fault = "incr_fails" \/ ~i.ok
       THEN [raised |-> "", suppress |-> Thrashing(c, 0), cache |-> cch, used |-> TRUE]
       ELSE [raised |-> "", suppress |-> Thrashing(c, i.value), cache |-> i.cache,
             used |-> TRUE]

(***************************************************************************)
(* Filters (sentry.helpers.get_filters): conf.FILTERS is the registered    *)
(* list.  A filter's process(kwargs) returns a changed event ("scrub"      *)
(* replaces server_name, "relay" copies the server_name it is given into    *)
(* site), the event as it is ("pass"), nothing ("none"), or raises         *)
(* ("raise").                                                              *)
(***************************************************************************)
FilterReturn(kind, kw) ==
    CASE kind = "scrub" -> [none |-> FALSE, kw |-> Put(kw, "server_name", "scrubbed")]
      [] kind = "relay" -> [none |-> FALSE, kw |-> Put(kw, "site", Get(kw, "server_name", ""))]
      [] kind = "pass"  -> [none |-> FALSE, kw |-> kw]
      [] OTHER          -> [none |-> TRUE, kw |-> EmptyKw]

\* the mutant of ApplyFilter: a filter returning nothing drops the event
ApplyFilterVeto(kind, kw) ==
    LET r == FilterReturn(kind, kw) IN IF r.none THEN EmptyKw ELSE r.kw

\* kwargs = filter_(None).process(kwargs) or kwargs, line 47
ApplyFilter(kind, kw) ==
    LET r == FilterReturn(kind, kw) IN IF r.none \/ r.kw = EmptyKw THEN kw ELSE r.kw

RECURSIVE RunFiltersReversed(_, _, _, _)
\* the mutant of RunFilters: the filters run last registered first
RunFiltersReversed(filters, i, kw, steps) ==
    IF i > Len(filters) THEN [raised |-> "", kw |-> kw, steps |-> steps]
    ELSE LET k == Len(filters) + 1 - i IN
         IF filters[k] = "raise"
         THEN [raised |-> "FilterError", kw |-> kw,
               steps |-> Append(steps, [step |-> "filter", n |-> k])]
         ELSE RunFiltersReversed(filters, i + 1, ApplyFilter(filters[k], kw),
                                 Append(steps, [step |-> "filter", n |-> k]))

RECURSIVE RunFilters(_, _, _, _)
\* for filter_ in get_filters(), lines 46-47; n counts the filters run
RunFilters(filters, i, kw, steps) ==
    IF i > Len(filters) THEN [raised |-> "", kw |-> kw, steps |-> steps]
    ELSE IF filters[i] = "raise"
         THEN [raised |-> "FilterError", kw |-> kw,
               steps |-> Append(steps, [step |-> "filter", n |-> i])]
         ELSE RunFilters(filters, i + 1, ApplyFilter(filters[i], kw),
                         Append(steps, [step |-> "filter", n |-> i]))

(***************************************************************************)
(* The data field: [keys, safe, none].  transform (sentry.helpers) coerces *)
(* it to a safe form; None stays None.                                     *)
(***************************************************************************)
NoneData == [keys |-> {}, safe |-> TRUE, none |-> TRUE]

EmptyData == [keys |-> {}, safe |-> TRUE, none |-> FALSE]

transform(d) == [d EXCEPT !.safe = TRUE]

\* Python truth value of the data field
DataTrue(d) == ~d.none /\ d.keys # {}

(***************************************************************************)
(* send(), lines 55-73.  net[i] is what urlread does for REMOTE_URL[i]:    *)
(* "ok", "URLError" (network error), "HTTPError" (non-success response; a  *)
(* subclass of URLError, so the handler of line 64 takes it and the one of *)
(* line 67 is never entered), or "timeout" (socket.timeout or any other    *)
(* exception that is not a URLError).  store is "ok" or "raise".           *)
(***************************************************************************)
\* base64.b64encode(pickle.dumps(kwargs).encode('zlib')), line 59
Encode(kw) == [codec |-> <<"pickle", "zlib", "base64">>, body |-> kw]

\* what the collector reads back from a POST body
Decode(data) == data.body

\* str(None), the text logging emits for a None message
NoneText == <<"None">>

\* logger.error('Unable to reach Sentry log server: ...'), line 65
FailureEntry(url) ==
    [kind |-> "delivery_failure", level |-> ERROR,
     msg |-> <<"Unable to reach Sentry log server">>, url |-> url]

\* logger.log(kwargs.pop('level', None) or logging.ERROR,
\*            kwargs.pop('message', None)), line 66
FallbackEntry(kw) ==
    [kind |-> "fallback",
     level |-> IF Get(kw, "level", 0) # 0 THEN kw["level"] ELSE ERROR,
     msg |-> Get(kw, "message", NoneText), url |-> ""]

\* the two kwargs.pop of line 66: the event after a failure was handled
AfterFailure(kw) == Pop(Pop(kw, "level"), "message")

\* the mutant of OnFailure: a failed endpoint ends the loop
OnFailureStop(c, i) == Len(c.REMOTE_URL) + 1

\* the except clause returns into the for loop: the next endpoint is tried
OnFailure(c, i) == i + 1

RECURSIVE SendLoop(_, _, _, _, _, _)
\* for url in conf.REMOTE_URL, lines 57-69
SendLoop(c, net, i, kw, posts, logs) ==
    IF i > Len(c.REMOTE_URL)
    THEN [raised |-> "", returned |-> "None", posts |-> posts, logs |-> logs,
          stored |-> <<>>, final |-> kw]
    ELSE LET url == c.REMOTE_URL[i]
             posts2 == Append(posts, [url |-> url, data |-> Encode(kw), key |-> c.KEY])
         IN CASE net[i] = "ok" ->
                   SendLoop(c, net, i + 1, kw, posts2, logs)
              [] net[i] \in {"URLError", "HTTPError"} ->
                   SendLoop(c, net, OnFailure(c, i), AfterFailure(kw), posts2,
                            logs \o <<FailureEntry(url), FallbackEntry(kw)>>)
              [] OTHER ->
                   [raised |-> "socket.timeout", returned |-> "", posts |-> posts2,
                    logs |-> logs, stored |-> <<>>, final |-> kw]

\* the mutant of Send: after a failed delivery the event also goes to the
\* local store
SendAlsoStore(c, kw, net, store) ==
    LET r == SendLoop(c, net, 1, kw, <<>>, <<>>)
    IN IF c.REMOTE_URL # <<>>
       THEN IF r.logs # <<>>
            THEN [r EXCEPT !.stored = <<r.final>>, !.returned = "handle"]
            ELSE r
       ELSE [raised |-> "", returned |-> "handle", posts |-> <<>>, logs |-> <<>>,
             stored |-> <<kw>>, final |-> kw]

\* send(self, **kwargs), lines 55-73
Send(c, kw, net, store) ==
    IF c.REMOTE_URL # <<>>
    THEN SendLoop(c, net, 1, kw, <<>>, <<>>)
    ELSE IF store = "raise"
         THEN [raised |-> "StoreError", returned |-> "", posts |-> <<>>, logs |-> <<>>,
               stored |-> <<>>, final |-> kw]
         ELSE [raised |-> "", returned |-> "handle", posts |-> <<>>, logs |-> <<>>,
               stored |-> <<kw>>, final |-> kw]

(***************************************************************************)
(* process(), lines 21-53.  f is what the collaborators do in this call:   *)
(* [cache, transform, net, store].  The result records every effect of the *)
(* call: the steps taken in order, the exception that left it (raised),    *)
(* the return value, the event handed to send() and what send() did.       *)
(***************************************************************************)
\* kwargs.setdefault('level', ...); kwargs.setdefault('server_name', ...), lines 24-25
Defaults(c, kw) == SetDefault(SetDefault(kw, "level", ERROR), "server_name", c.NAME)

\* lines 27-30
Checksum(kw) == IF ~Has(kw, "checksum") THEN construct_checksum(kw) ELSE kw["checksum"]

Step(name) == [step |-> name, n |-> 0]

NoSend ==
    [raised |-> "", returned |-> "None", posts |-> <<>>, logs |-> <<>>,
     stored |-> <<>>, final |-> EmptyKw]

\* if 'data' in kwargs: kwargs['data'] = transform(kwargs['data']), lines 50-51
Coerce(kw) == IF Has(kw, "data") THEN Put(kw, "data", transform(kw["data"])) ELSE kw

\* the mutant of AfterGate: a suppressed call still goes on to the filters
AfterGateIgnore(g) == "filters"

\* where process() goes after the gate: return (line 44), the exception of
\* the counter store, or on to the filters
AfterGate(g) ==
    IF g.raised # "" THEN "raise" ELSE IF g.suppress THEN "return" ELSE "filters"

Process(c, cch, t, kw0, f) ==
    LET kw1 == Defaults(c, kw0)
        checksum == Checksum(kw1)
        g == Gate(c, cch, t, kw1, checksum, f.cache)
        steps1 == <<Step("defaults"), Step("checksum")>>
                     \o (IF g.used THEN <<Step("gate")>> ELSE <<>>)
        base == [kwargs |-> kw1, checksum |-> checksum, key |-> CacheKey(kw1, checksum),
                 gate |-> g.used, suppressed |-> FALSE, cache |-> g.cache,
                 steps |-> steps1, raised |-> g.raised, returned |-> "",
                 sent |-> FALSE, event |-> EmptyKw, send |-> NoSend]
        fl == RunFilters(c.FILTERS, 1, kw1, steps1)
        coerces == Has(fl.kw, "data")
        steps3 == fl.steps \o (IF coerces THEN <<Step("transform")>> ELSE <<>>)
        kw3 == Coerce(fl.kw)
        sd == Send(c, kw3, f.net, f.store)
    IN CASE AfterGate(g) = "raise" -> base
         [] AfterGate(g) = "return" ->
              [base EXCEPT !.suppressed = TRUE, !.returned = "None"]
         [] OTHER ->
              IF fl.raised # ""
              THEN [base EXCEPT !.steps = fl.steps, !.raised = fl.raised]
              ELSE IF coerces /\ f.transform = "raise"
              THEN [base EXCEPT !.steps = steps3, !.raised = "TransformError"]
              ELSE [base EXCEPT !.steps = Append(steps3, Step("send")),
                                !.raised = sd.raised, !.returned = sd.returned,
                                !.sent = TRUE, !.event = kw3, !.send = sd]

(***************************************************************************)
(* create_from_text, lines 121-128.                                        *)
(***************************************************************************)
TextKwargs(message, kw) == Put(kw, "message", message)

(***************************************************************************)
(* create_from_exception, lines 130-212.  An exception is                  *)
(* [type, value, frames, template]: the class name, the lines of           *)
(* unicode(exc_value), the traceback frames oldest first, and the load     *)
(* name of the template when it is a TemplateSyntaxError with a source     *)
(* (<<>> otherwise).                                                       *)
(***************************************************************************)
\* '\n'.join(traceback.format_exception(...)), line 203: one line per frame
\* and the final "Type: value" line
TracebackText(exc) ==
    [i \in 1..Len(exc.frames) |-> exc.frames[i].mod \o <<".">> \o exc.frames[i].fn]
        \o <<<<exc.type>> \o exc.value>>

\* lines 148-185: the view is resolved only when none was supplied
WithView(c, exc, kw) ==
    IF Get(kw, "view", <<>>) # <<>> THEN kw
    ELSE LET view == ResolveView(c, exc.frames)
         IN IF view # <<>> THEN Put(kw, "view", view) ELSE kw

\* lines 187-194: data = kwargs.pop('data', {}) or {}; data['__sentry__'] = ...
ExceptionData(kw) ==
    LET d == Get(kw, "data", EmptyData)
        keys == IF DataTrue(d) THEN d.keys ELSE {}
    IN [keys |-> keys \cup {"__sentry__"}, safe |-> FALSE, none |-> FALSE]

\* the keyword arguments create_from_exception calls process() with
ExceptionKwargs(c, exc, kw) ==
    LET kwV == WithView(c, exc, kw)
        kwP == Pop(kwV, "data")
        kwT == IF exc.template # <<>> THEN Put(kwP, "view", exc.template) ELSE kwP
        kwM == SetDefault(kwT, "message", exc.value)
    IN Update(kwM, [class_name |-> exc.type, traceback |-> TracebackText(exc),
                    data |-> ExceptionData(kwV)])

(***************************************************************************)
(* create_from_record, lines 75-119.  A record is [name, levelno, msg,     *)
(* args, exc_info, extra, request]: msg is the template, args the value    *)
(* its "%s" is replaced by ("" when there are no args), exc_info an        *)
(* exception or NoExc, extra the url/view/data attributes set on the       *)
(* record, request whether a request is attached.                          *)
(***************************************************************************)
NoExc == [type |-> "", value |-> <<>>, frames |-> <<>>, template |-> <<>>]

\* record.getMessage(): msg % args
getMessage(rec) ==
    IF rec.args = "" THEN rec.msg
    ELSE [i \in 1..Len(rec.msg) |-> IF rec.msg[i] = "%s" THEN rec.args ELSE rec.msg[i]]

\* record.__dict__.get(k): None when the record has no such attribute
RecordAttr(rec, k) ==
    IF k \in DOMAIN rec.extra THEN rec.extra[k]
    ELSE CASE k = "url" -> "" [] k = "view" -> <<>> [] OTHER -> NoneData

RequestKeys == {"META", "POST", "GET", "COOKIES", "raw_post_data"}

\* lines 79-81
WithRecordAttrs(rec, kw) ==
    [k \in (DOMAIN kw) \cup {"url", "view", "data"} |->
        IF k \in DOMAIN kw THEN kw[k] ELSE RecordAttr(rec, k)]

\* lines 83-96
WithRequest(rec, kw) ==
    IF ~rec.request THEN kw
    ELSE LET d == IF DataTrue(kw["data"]) THEN kw["data"] ELSE EmptyData
             kwd == Put(kw, "data", [keys |-> d.keys \cup RequestKeys,
                                      safe |-> FALSE, none |-> FALSE])
         IN IF kwd["url"] = "" THEN Put(kwd, "url", "http://request/") ELSE kwd

\* lines 98-103
WithRecordFields(c, rec, kw) ==
    Update(kw, [logger |-> rec.name, level |-> rec.levelno, message |-> rec.msg,
                server_name |-> c.NAME])

\* the mutant of WithChecksum: the message is formatted first
WithChecksumAfterFormat(rec, kw) ==
    LET k == Put(kw, "message", getMessage(rec))
    IN Put(k, "checksum", construct_checksum(k))

\* lines 105-109: the checksum of the unparsed message, then the formatted one
WithChecksum(rec, kw) ==
    Put(Put(kw, "checksum", construct_checksum(kw)), "message", getMessage(rec))

\* the keyword arguments of lines 98-109, before the record's path is chosen
RecordBase(c, rec, kw) ==
    WithChecksum(rec, WithRecordFields(c, rec, WithRequest(rec, WithRecordAttrs(rec, kw))))

\* if record.exc_info and all(record.exc_info), line 113
HasExc(rec) == rec.exc_info.type # ""

\* the keyword arguments create_from_record reaches process() with, lines 113-119
\* (record.exc_text is None unless a formatter cached it: traceback = None)
RecordKwargs(c, rec, kw) ==
    IF HasExc(rec)
    THEN ExceptionKwargs(c, rec.exc_info, RecordBase(c, rec, kw))
    ELSE Put(RecordBase(c, rec, kw), "traceback", <<>>)

(***************************************************************************)
(* Settings and inputs the behaviours are drawn from.                      *)
(***************************************************************************)
Frame(mod, fn) == [mod |-> mod, fn |-> fn, ok |-> TRUE]

LibF == Frame(<<"l">>, <<"f">>)          \* library frames
LibG == Frame(<<"l">>, <<"g">>)
AppG == Frame(<<"a">>, <<"g">>)          \* frames of an installed app
AppH == Frame(<<"a">>, <<"h">>)
AppX == Frame(<<"a">>, <<"x">>)          \* app frames under an excluded path
AppXY == Frame(<<"a">>, <<"x", "y">>)
BadFrame == [mod |-> <<"a">>, fn |-> <<"g">>, ok |-> FALSE]

FrameKinds == {LibF, LibG, AppG, AppH, AppX, AppXY, BadFrame}

Traces == UNION {[1..n -> FrameKinds] : n \in 0..MaxFrames}

BaseConf ==
    [NAME |-> "host", KEY |-> "secret",
     THRASHING_TIMEOUT |-> 0, THRASHING_LIMIT |-> 0,
     REMOTE_URL |-> <<>>, FILTERS |-> <<>>,
     INSTALLED_APPS |-> {<<"a">>}, INCLUDE_PATHS |-> {},
     EXCLUDE_PATHS |-> {<<"a", ".", "x">>}]

Window == 2         \* conf.THRASHING_TIMEOUT when the gate is on
MaxLimit == 2       \* largest conf.THRASHING_LIMIT
PipeCalls == 2      \* entry-point calls in one behaviour of the pipeline
MaxThreads == 3     \* concurrent calls of process()
MaxCount == 4       \* largest count the stream drives a counter to in one window

Urls == <<"u1", "u2", "u3", "u4", "u5">>

NoFault(c) ==
    [cache |-> "none", transform |-> "ok",
     net |-> [i \in 1..Len(c.REMOTE_URL) |-> "ok"], store |-> "ok"]

\* one collaborator at most fails in a call
Faults(c) ==
    {NoFault(c)}
    \cup {[NoFault(c) EXCEPT !.cache = x] :
            x \in IF GateEnabled(c) THEN {"add_raises", "incr_fails", "incr_other"} ELSE {}}
    \cup {[NoFault(c) EXCEPT !.transform = "raise"]}
    \cup {[NoFault(c) EXCEPT !.net = [i \in 1..Len(c.REMOTE_URL) |-> x]] :
            x \in IF c.REMOTE_URL # <<>> THEN {"URLError", "HTTPError", "timeout"} ELSE {}}
    \cup {[NoFault(c) EXCEPT !.store = x] :
            x \in IF c.REMOTE_URL = <<>> THEN {"raise"} ELSE {}}

\* every pattern of per-endpoint outcomes
NetPatterns(c) ==
    {[NoFault(c) EXCEPT !.net = n] :
        n \in [1..Len(c.REMOTE_URL) -> {"ok", "URLError", "HTTPError", "timeout"}]}

UserData == [keys |-> {"user"}, safe |-> FALSE, none |-> FALSE]

Given == <<"given", "c1", <<>>>>

Texts == {<<"disk full">>, <<"io error", "retry">>}

Exc(type, frames, template) ==
    [type |-> type, value |-> <<"bad value">>, frames |-> frames, template |-> template]

Rec(args, exc_info, request) ==
    [name |-> "app.jobs", levelno |-> WARNING, msg |-> <<"%s", "failed">>,
     args |-> args, exc_info |-> exc_info, extra |-> EmptyKw, request |-> request]

\* calls of create_from_text: <<message, kwargs>>
TextCalls ==
    {<<<<"disk full">>, EmptyKw>>,
     <<<<"disk full">>, "checksum" :> Given>>,
     <<<<"io error", "retry">>, "data" :> UserData>>}

\* calls of create_from_record: <<record, kwargs>>
RecordCalls ==
    {<<Rec(a, e, FALSE), EmptyKw>> :
        a \in {"j1", "j2"},
        e \in {NoExc, Exc("ValueError", <<LibF, AppG>>, <<>>),
                      Exc("KeyError", <<LibF, AppG>>, <<>>)}}
    \cup {<<Rec("", NoExc, TRUE), EmptyKw>>,
          <<Rec("j1", NoExc, FALSE), "checksum" :> Given>>,
          <<Rec("j1", Exc("ValueError", <<LibF, AppG>>, <<>>), FALSE), "checksum" :> Given>>}

\* calls of create_from_exception: <<exception, kwargs>>
ExcCalls ==
    {<<Exc("ValueError", <<LibF, AppG, AppX, LibG>>, <<>>), EmptyKw>>,
     <<Exc("KeyError", <<LibF, AppG, AppX, LibG>>, <<>>), EmptyKw>>,
     <<Exc("ValueError", <<LibF>>, <<>>), "data" :> UserData>>,
     <<Exc("ValueError", <<LibF, AppG>>, <<"t", ".", "html">>), EmptyKw>>,
     <<Exc("ValueError", <<LibF, AppG>>, <<>>), "view" :> <<"v">>>>,
     <<Exc("ValueError", <<LibF, AppG>>, <<>>), "checksum" :> Given>>}

\* the calls during which a collaborator fails
FaultyTextCalls == {<<<<"io error", "retry">>, "data" :> UserData>>}

FaultyRecordCalls == {<<Rec("j1", NoExc, FALSE), EmptyKw>>}

FaultyExcCalls == {<<Exc("ValueError", <<LibF, AppG, AppX, LibG>>, <<>>), EmptyKw>>}

\* events as process() hands them to send()
Events ==
    {Defaults(BaseConf, TextKwargs(m, kw)) : m \in Texts, kw \in {EmptyKw, "level" :> WARNING}}

NoOut ==
    [kwargs |-> EmptyKw, checksum |-> <<>>, key |-> <<>>, gate |-> FALSE,
     suppressed |-> FALSE, cache |-> EmptyKw, steps |-> <<>>, raised |-> "",
     returned |-> "", sent |-> FALSE, event |-> EmptyKw, send |-> NoSend]

NoCall == [entry |-> "none", arg |-> <<>>, kw |-> EmptyKw, f |-> NoFault(BaseConf), out |-> NoOut]

\* no concurrent call
NoProcs == <<>>

WalkIdle == [phase |-> "idle", frames |-> <<>>, i |-> 1, st |-> WalkStart, view |-> <<>>]

(***************************************************************************)
(* The state machine.  An entry-point call runs to completion: the client  *)
(* is synchronous.  last keeps the call's input and everything it did.     *)
(***************************************************************************)
Call(entry, arg, kw, pkw, f) ==
    LET o == Process(conf, cache, now, pkw, f)
    IN /\ last' = [entry |-> entry, arg |-> arg, kw |-> kw, f |-> f, out |-> o]
       /\ cache' = o.cache
       /\ hist' = Append(hist, [key |-> o.key, time |-> now, fault |-> f.cache,
                                suppressed |-> o.suppressed, passed |-> o.sent])
       /\ UNCHANGED <<conf, now, walk, procs>>

CreateFromText(message, kw, f) ==
    Call("text", message, kw, TextKwargs(message, kw), f)

CreateFromRecord(rec, kw, f) ==
    Call("record", rec, kw, RecordKwargs(conf, rec, kw), f)

CreateFromException(exc, kw, f) ==
    Call("exception", exc, kw, ExceptionKwargs(conf, exc, kw), f)

\* send() called with an event, as process() calls it
SendCall(kw, f) ==
    /\ last' = [entry |-> "send", arg |-> <<>>, kw |-> kw, f |-> f,
                out |-> [NoOut EXCEPT !.sent = TRUE, !.event = kw,
                                      !.send = Send(conf, kw, f.net, f.store),
                                      !.raised = Send(conf, kw, f.net, f.store).raised,
                                      !.returned = Send(conf, kw, f.net, f.store).returned]]
    /\ UNCHANGED <<conf, cache, now, hist, walk, procs>>

\* the clock of the counter store advances
Tick ==
    /\ now < MaxTime
    /\ now' = now + 1
    /\ UNCHANGED <<conf, cache, hist, last, walk, procs>>

\* one iteration of the frame loop, lines 171-180
WalkFrame ==
    /\ walk.phase = "walking"
    /\ walk.i <= Len(walk.frames)
    /\ ~walk.st.stopped
    /\ walk' = [walk EXCEPT !.st = WalkStep(conf, walk.st, walk.frames[walk.i]),
                            !.i = walk.i + 1]
    /\ UNCHANGED <<conf, cache, now, hist, last, procs>>

\* the loop is left (exhausted, or by the break of line 180), lines 181-182
WalkFinish ==
    /\ walk.phase = "walking"
    /\ walk.i > Len(walk.frames) \/ walk.st.stopped
    /\ walk' = [walk EXCEPT !.phase = "done", !.view = WalkResult(walk.st)]
    /\ UNCHANGED <<conf, cache, now, hist, last, procs>>

\* fewer than n calls of process() were made
More(n) == Len(hist) < n

InitWith(confs) ==
    /\ conf \in confs
    /\ cache = EmptyKw
    /\ now = 0
    /\ hist = <<>>
    /\ last = NoCall
    /\ walk = WalkIdle
    /\ procs = NoProcs

(***************************************************************************)
(* Spec: the whole pipeline, every entry point, every collaborator fault.  *)
(***************************************************************************)
PipeConf(timeout, limit, filters, urls) ==
    [BaseConf EXCEPT !.THRASHING_TIMEOUT = timeout, !.THRASHING_LIMIT = limit,
                     !.FILTERS = filters, !.REMOTE_URL = urls]

PipeConfs ==
    {PipeConf(0, 0, <<>>, <<>>),
     PipeConf(Window, 1, <<>>, <<>>),
     PipeConf(Window, 1, <<"scrub", "none">>, <<"u1">>),
     PipeConf(0, 0, <<"none", "scrub">>, <<>>),
     PipeConf(0, 0, <<"pass", "raise">>, <<"u1">>),
     PipeConf(Window, 1, <<"none">>, <<"u1">>),
     PipeConf(Window, 1, <<"scrub", "relay">>, <<"u1">>)}

Init == InitWith(PipeConfs)

Next ==
    \/ \E x \in TextCalls : More(PipeCalls) /\ CreateFromText(x[1], x[2], NoFault(conf))
    \/ \E x \in RecordCalls : More(PipeCalls) /\ CreateFromRecord(x[1], x[2], NoFault(conf))
    \/ \E x \in ExcCalls : More(PipeCalls) /\ CreateFromException(x[1], x[2], NoFault(conf))
    \/ \E x \in FaultyTextCalls, f \in Faults(conf) :
          More(PipeCalls) /\ CreateFromText(x[1], x[2], f)
    \/ \E x \in FaultyRecordCalls, f \in Faults(conf) :
          More(PipeCalls) /\ CreateFromRecord(x[1], x[2], f)
    \/ \E x \in FaultyExcCalls, f \in Faults(conf) :
          More(PipeCalls) /\ CreateFromException(x[1], x[2], f)

Spec == Init /\ [][Next]_vars

(***************************************************************************)
(* SpecThrottle: repeated occurrences against the counter store over time. *)
(***************************************************************************)
ThrottleConfs ==
    {[BaseConf EXCEPT !.THRASHING_TIMEOUT = Window, !.THRASHING_LIMIT = n] :
        n \in 1..MaxLimit}
    \cup {[BaseConf EXCEPT !.THRASHING_TIMEOUT = w, !.THRASHING_LIMIT = n] :
            w \in {0, Window}, n \in {0, MaxLimit}}

InitThrottle == InitWith(ThrottleConfs)

NextThrottle ==
    \/ \E m \in Texts : More(MaxCalls) /\ CreateFromText(m, EmptyKw, NoFault(conf))
    \/ /\ More(MaxCalls)
       /\ CreateFromText(<<"disk full">>, EmptyKw, [NoFault(conf) EXCEPT !.cache = "incr_fails"])
    \/ Tick

SpecThrottle == InitThrottle /\ [][NextThrottle]_vars

(***************************************************************************)
(* SpecSend: send() over every endpoint list and outcome pattern.          *)
(***************************************************************************)
SendConfs ==
    {[BaseConf EXCEPT !.REMOTE_URL = SubSeq(Urls, 1, n)] : n \in 0..MaxEndpoints}

InitSend == InitWith(SendConfs)

\* send() keeps nothing between calls: one call to a behaviour covers them all
NextSend ==
    \/ \E kw \in Events, f \in NetPatterns(conf) : last.entry = "none" /\ SendCall(kw, f)
    \/ \E m \in Texts, f \in NetPatterns(conf) :
          last.entry = "none" /\ CreateFromText(m, EmptyKw, f)

SpecSend == InitSend /\ [][NextSend]_vars

(***************************************************************************)
(* SpecResolver: the frame walk over every traceback.                      *)
(***************************************************************************)
ResolverConfs == {BaseConf, [BaseConf EXCEPT !.INCLUDE_PATHS = {<<"l", ".", "g">>}]}

InitResolver ==
    /\ conf \in ResolverConfs
    /\ cache = EmptyKw
    /\ now = 0
    /\ hist = <<>>
    /\ last = NoCall
    /\ \E fr \in Traces : walk = [WalkIdle EXCEPT !.phase = "walking", !.frames = fr]
    /\ procs = NoProcs

NextResolver == WalkFrame \/ WalkFinish

SpecResolver == InitResolver /\ [][NextResolver]_vars

(***************************************************************************)
(* SpecConc: calls of process() running at once with the same event.  The  *)
(* only state they share is the counter store; cache.add and cache.incr    *)
(* are each one atomic step, and a call may be overtaken, and the clock    *)
(* may advance, between its cache.add and its cache.incr.                  *)
(***************************************************************************)
ConcConfs ==
    {[BaseConf EXCEPT !.THRASHING_TIMEOUT = Window, !.THRASHING_LIMIT = n] :
        n \in 1..MaxLimit}

\* the event of every concurrent call, after lines 24-30
ConcKw == Defaults(conf, TextKwargs(<<"disk full">>, EmptyKw))

ConcKey == CacheKey(ConcKw, Checksum(ConcKw))

\* a call about to run line 34.  t_add, expires, t_incr and incr_ok record
\* when the call ran cache.add, the expiry of the counter it then met or
\* registered, when it ran cache.incr and whether that found the counter.
ProcStart ==
    [pc |-> "add", added |-> FALSE, thrash_count |-> 0, suppressed |-> FALSE,
     passed |-> FALSE, t_add |-> 0, expires |-> 0, t_incr |-> 0, incr_ok |-> TRUE]

\* added = cache.add(cache_key, 1, conf.THRASHING_TIMEOUT), line 34; when
\* added, thrash_count stays 0 and the call goes on to lines 46-53
ProcAdd(p) ==
    /\ p \in DOMAIN procs
    /\ procs[p].pc = "add"
    /\ LET a == CacheAdd(cache, ConcKey, now, conf.THRASHING_TIMEOUT)
       IN /\ cache' = a.cache
          /\ procs' = [procs EXCEPT ![p] =
                IF a.added
                THEN [@ EXCEPT !.pc = "done", !.added = TRUE, !.passed = TRUE,
                               !.t_add = now, !.expires = a.cache[ConcKey].expires]
                ELSE [@ EXCEPT !.pc = "incr", !.t_add = now,
                               !.expires = cache[ConcKey].expires]]
    /\ UNCHANGED <<conf, now, hist, last, walk>>

\* lines 36-44: cache.incr, thrash_count = 0 on ValueError, the return of a
\* suppressed call; a call that is not suppressed goes on to lines 46-53
ProcIncr(p) ==
    /\ p \in DOMAIN procs
    /\ procs[p].pc = "incr"
    /\ LET i == CacheIncr(cache, ConcKey, now)
           thrash_count == IF i.ok THEN i.value ELSE 0
       IN /\ cache' = i.cache
          /\ procs' = [procs EXCEPT ![p] =
                [@ EXCEPT !.pc = "done", !.thrash_count = thrash_count,
                          !.suppressed = Thrashing(conf, thrash_count),
                          !.passed = ~Thrashing(conf, thrash_count),
                          !.t_incr = now, !.incr_ok = i.ok]]
    /\ UNCHANGED <<conf, now, hist, last, walk>>

InitConc ==
    /\ conf \in ConcConfs
    /\ cache = EmptyKw
    /\ now = 0
    /\ hist = <<>>
    /\ last = NoCall
    /\ walk = WalkIdle
    /\ procs \in {[p \in 1..k |-> ProcStart] : k \in 1..MaxThreads}

NextConc ==
    \/ \E p \in 1..MaxThreads : ProcAdd(p)
    \/ \E p \in 1..MaxThreads : ProcIncr(p)
    \/ Tick

SpecConc == InitConc /\ [][NextConc]_vars

(***************************************************************************)
(* SpecStream: an unending stream of occurrences of one key.  One caller   *)
(* calls process() again after each call, and the clock is fair.  Within   *)
(* one window the stream drives the counter to MaxCount at most; once the  *)
(* counter has expired a next call is always possible.                     *)
(***************************************************************************)
\* the caller's next call of process() with the same event
ProcAgain(p) ==
    /\ p \in DOMAIN procs
    /\ procs[p].pc = "done"
    /\ Live(cache, ConcKey, now) => cache[ConcKey].count < MaxCount
    /\ procs' = [procs EXCEPT ![p] = ProcStart]
    /\ UNCHANGED <<conf, cache, now, hist, last, walk>>

InitStream ==
    /\ conf \in ConcConfs
    /\ cache = EmptyKw
    /\ now = 0
    /\ hist = <<>>
    /\ last = NoCall
    /\ walk = WalkIdle
    /\ procs = <<ProcStart>>

NextStream ==
    \/ \E p \in 1..MaxThreads : ProcAdd(p)
    \/ \E p \in 1..MaxThreads : ProcIncr(p)
    \/ \E p \in 1..MaxThreads : ProcAgain(p)
    \/ Tick

\* some caller takes its next step
CallerStep == \E p \in 1..MaxThreads : ProcAdd(p) \/ ProcIncr(p) \/ ProcAgain(p)

SpecStream ==
    /\ InitStream
    /\ [][NextStream]_vars
    /\ WF_vars(Tick)
    /\ WF_vars(CallerStep)

(***************************************************************************)
(* Properties.                                                             *)
(***************************************************************************)
SameKey(i) == {j \in 1..Len(hist) : hist[j].key = hist[i].key}

Max(S) == CHOOSE x \in S : \A y \in S : y <= x

Min(S) == CHOOSE x \in S : \A y \in S : x <= y

RECURSIVE LifeStart(_)
\* the call that registered the counter the i-th call counts against: the
\* first call of the key, and every call made once W seconds have passed
\* since the registering call before it
LifeStart(i) ==
    LET before == {j \in SameKey(i) : j < i}
    IN IF before = {} THEN i
       ELSE LET s == LifeStart(Max(before))
            IN IF hist[i].time < hist[s].time + conf.THRASHING_TIMEOUT THEN s ELSE i

\* the calls of the i-th call's counter lifetime, up to the i-th
Life(i) == {j \in SameKey(i) : j <= i /\ LifeStart(j) = LifeStart(i)}

FaultFree(i) == \A j \in Life(i) : hist[j].fault = "none"

\* C1: with the gate on and no counter-store fault, the k-th call of a key
\* within one counter lifetime is suppressed iff k > THRASHING_LIMIT; the
\* first call after the counter expired is not suppressed and leaves the
\* counter at 1, expiring THRASHING_TIMEOUT later.
C1_CountingRule ==
    /\ \A i \in 1..Len(hist) :
          (GateEnabled(conf) /\ FaultFree(i)) =>
              (hist[i].suppressed <=> Cardinality(Life(i)) > conf.THRASHING_LIMIT)
    /\ \A i \in 1..Len(hist) :
          (GateEnabled(conf) /\ FaultFree(i) /\ LifeStart(i) = i) =>
              /\ ~hist[i].suppressed
              /\ hist[i].passed
              /\ i = Len(hist) =>
                    cache[hist[i].key] =
                        [count |-> 1, expires |-> hist[i].time + conf.THRASHING_TIMEOUT]

\* a key whose (limit+1)-th occurrence was suppressed and whose next
\* occurrence, after the expiry, started a new count
C1_Witness ==
    \E i, j \in 1..Len(hist) :
        /\ conf.THRASHING_LIMIT > 1
        /\ i < j /\ hist[i].key = hist[j].key
        /\ FaultFree(i) /\ FaultFree(j)
        /\ hist[i].suppressed
        /\ Cardinality(Life(i)) = conf.THRASHING_LIMIT + 1
        /\ LifeStart(j) = j /\ ~hist[j].suppressed
        /\ j = Len(hist) /\ cache[hist[j].key].count = 1

\* the POSTs and log entries of the send() of the most recent call
Sd == last.out.send

Failing(net) == {i \in DOMAIN net : net[i] \in {"URLError", "HTTPError"}}

Entries(kind) == SelectSeq(Sd.logs, LAMBDA e : e.kind = kind)

NoTimeout == \A i \in DOMAIN last.f.net : last.f.net[i] # "timeout"

\* C2: when every endpoint succeeds, fails with a network error or answers
\* with a non-success response, send() POSTs to every configured endpoint
\* once, in the configured order, logs one delivery failure at error level
\* per failing endpoint (naming that endpoint, in order), and returns
\* without raising.
C2_EveryEndpointOnce ==
    (last.out.sent /\ conf.REMOTE_URL # <<>> /\ NoTimeout) =>
        /\ [i \in 1..Len(Sd.posts) |-> Sd.posts[i].url] = conf.REMOTE_URL
        /\ Len(Entries("delivery_failure")) = Cardinality(Failing(last.f.net))
        /\ \A e \in Failing(last.f.net) :
              \E n \in 1..Len(Entries("delivery_failure")) :
                  /\ Entries("delivery_failure")[n] = FailureEntry(conf.REMOTE_URL[e])
                  /\ n = Cardinality({x \in Failing(last.f.net) : x <= e})
        /\ last.out.raised = ""
        /\ last.out.returned = "None"

\* the first endpoint failed, a later one succeeded, another later one
\* failed: all were tried
C2_Witness ==
    /\ last.entry = "text"
    /\ Len(conf.REMOTE_URL) = MaxEndpoints
    /\ last.f.net[1] = "URLError"
    /\ last.f.net[2] = "ok"
    /\ last.f.net[MaxEndpoints] = "HTTPError"
    /\ Len(Sd.posts) = MaxEndpoints
    /\ Len(Entries("delivery_failure")) = 2
    /\ last.out.raised = ""

\* C3 as claimed: the event POSTed to every endpoint is the complete event
\* send() was called with, message and level included, whatever happened
\* at the earlier endpoints.
C3_SamePayloadEverywhere ==
    (last.out.sent /\ conf.REMOTE_URL # <<>>) =>
        \A i \in 1..Len(Sd.posts) :
            /\ Decode(Sd.posts[i].data) = last.out.event
            /\ Has(Decode(Sd.posts[i].data), "message")
            /\ Has(Decode(Sd.posts[i].data), "level")

\* C4 as claimed: every fallback entry carries the level and the message
\* of the event send() was called with, for the first failure of the call
\* and for the later ones.
C4_FallbackCarriesEvent ==
    (last.out.sent /\ conf.REMOTE_URL # <<>>) =>
        \A n \in 1..Len(Entries("fallback")) :
            /\ Entries("fallback")[n].level = last.out.event["level"]
            /\ Entries("fallback")[n].msg = last.out.event["message"]

\* the identifiers of the frames walked so far whose identifier can be
\* computed, oldest first, and of the whole traceback
IdsOf(frames) ==
    LET ok == SelectSeq(frames, LAMBDA fr : fr.ok)
    IN [i \in 1..Len(ok) |-> Ident(ok[i])]

Walked == IdsOf(SubSeq(walk.frames, 1, walk.i - 1))

Known(ids) == {i \in 1..Len(ids) : contains(Modules(conf), ids[i])}

Excluded(ids) == {i \in 1..Len(ids) : contains(conf.EXCLUDE_PATHS, ids[i])}

\* the first maximal run of known-module frames
FirstRun(ids) ==
    {i \in Known(ids) : \A k \in Min(Known(ids))..i : k \in Known(ids)}

\* the last frame of the first run that is not excluded, the first frame
\* of the run when all of it is excluded
RunChoice(ids) ==
    IF FirstRun(ids) \ Excluded(ids) # {}
    THEN ids[Max(FirstRun(ids) \ Excluded(ids))]
    ELSE ids[Min(FirstRun(ids))]

\* a frame that is not of a known module was seen after the first run began
LeftRun(ids) == \E i \in 1..Len(ids) : i \notin Known(ids) /\ i > Min(Known(ids))

\* C5: once a frame of a known module was walked, the best guess is the
\* last non-excluded frame of the first maximal run of known frames (the
\* run's first frame when all of the run is excluded), frames without an
\* identifier being skipped; the walk has stopped exactly when a frame
\* outside the known modules was seen after that; and the resolved view is
\* that best guess.
C5_WalkRule ==
    (walk.phase # "idle" /\ Known(Walked) # {}) =>
        /\ walk.st.best_guess = RunChoice(Walked)
        /\ walk.st.stopped <=> LeftRun(Walked)
        /\ walk.phase = "done" =>
              /\ walk.view = RunChoice(IdsOf(walk.frames))
              /\ ResolveView(conf, walk.frames) = walk.view

\* the walk of app, unidentifiable, excluded app, lib ends on the app frame:
\* the excluded frame did not overwrite it and the walk stopped on leaving
\* the run
C5_Witness ==
    /\ walk.phase = "done"
    /\ walk.frames = <<AppG, BadFrame, AppX, LibG>>
    /\ walk.view = Ident(AppG)
    /\ walk.st.stopped

\* the view create_from_exception passes to process() for the walked frames
PassedView ==
    Get(ExceptionKwargs(conf, Exc("ValueError", walk.frames, <<>>), EmptyKw), "view", <<>>)

\* C6 as claimed: when no frame matches a known-module prefix, no view is
\* passed on to process().
C6_NoneWhenNothingMatches ==
    (walk.phase = "done" /\ Known(IdsOf(walk.frames)) = {}) =>
        /\ walk.view = <<>>
        /\ PassedView = <<>>

\* C6 amended: when no frame matches a known-module prefix, the view passed
\* on to process() is the identifier of the last frame whose identifier can
\* be computed, and none only when no frame has one.
C6_LastFrameWhenNothingMatches ==
    (walk.phase = "done" /\ Known(IdsOf(walk.frames)) = {}) =>
        LET ids == IdsOf(walk.frames)
        IN /\ walk.st.best_guess = <<>>
           /\ walk.view = IF ids = <<>> THEN <<>> ELSE ids[Len(ids)]
           /\ PassedView = walk.view

\* a traceback of library frames only: the innermost one becomes the view
C6_Witness ==
    /\ walk.phase = "done"
    /\ Len(walk.frames) >= 2
    /\ Known(IdsOf(walk.frames)) = {}
    /\ walk.frames[1] = LibG
    /\ walk.view = Ident(LibF)
    /\ PassedView = Ident(LibF)

\* the most recent call of process(), in the history
Latest == Len(hist)

\* C7: create_from_record computes the checksum from the unformatted
\* template (so it is the same for every value of the record's arguments)
\* and only then stores the formatted message; process(), the counter key
\* and the dispatched event get that checksum and the record's own
\* formatted message, with or without exception info on the record.
C7_ChecksumBeforeFormatting ==
    (last.entry = "record" /\ ~Has(last.kw, "message")) =>
        /\ last.out.checksum = construct_checksum("message" :> last.arg.msg)
        /\ last.out.key[2] = last.out.checksum
        /\ last.out.kwargs["checksum"] = last.out.checksum
        /\ last.out.kwargs["message"] = getMessage(last.arg)
        /\ last.out.sent =>
              /\ last.out.event["checksum"] = last.out.checksum
              /\ last.out.event["message"] = getMessage(last.arg)
        /\ \A a \in {"", "j1", "j2", "j3"} :
              LET other == RecordKwargs(conf, [last.arg EXCEPT !.args = a], last.kw)
              IN /\ Checksum(Defaults(conf, other)) = last.out.checksum
                 /\ CacheKey(other, Checksum(Defaults(conf, other))) = last.out.key
                 /\ other["message"] = getMessage([last.arg EXCEPT !.args = a])

\* a record with exception info and arguments was dispatched with its
\* formatted message and the checksum of its template
C7_Witness ==
    /\ last.entry = "record"
    /\ HasExc(last.arg)
    /\ last.arg.args = "j2"
    /\ last.out.sent
    /\ last.out.event["message"] = <<"j2", "failed">>
    /\ last.out.event["checksum"] = <<"digest", "%s", <<>>>>
    /\ \E j \in 1..(Latest - 1) : hist[j].key = hist[Latest].key

\* the filters of the most recent call ran to the end
FiltersDone ==
    /\ last.entry # "none"
    /\ ~last.out.suppressed
    /\ \E i \in 1..Len(last.out.steps) :
          last.out.steps[i] = [step |-> "filter", n |-> Len(conf.FILTERS)]
    /\ last.out.raised # "FilterError"

Returning(kind) == \E i \in 1..Len(conf.FILTERS) : conf.FILTERS[i] = kind

\* C8 as claimed: when a filter returns no event, the event is not handed
\* to send(): nothing is POSTed and nothing is stored.
C8_VetoDropsEvent ==
    (FiltersDone /\ Returning("none")) =>
        /\ ~last.out.sent
        /\ last.out.send.posts = <<>>
        /\ last.out.send.stored = <<>>

\* C8 amended: a filter that returns no event drops nothing: the event goes
\* on unchanged to the next filter and to send(), which gets the event as
\* the other filters changed it (unless coercing data raises).
C8_NoReturnKeepsEvent ==
    (FiltersDone /\ Returning("none") /\ last.f.transform = "ok") =>
        /\ last.out.sent
        /\ last.out.event =
              Coerce(IF Returning("scrub")
                     THEN Put(last.out.kwargs, "server_name", "scrubbed")
                     ELSE last.out.kwargs)
        /\ conf.REMOTE_URL # <<>> => Len(last.out.send.posts) = Len(conf.REMOTE_URL)
        /\ (conf.REMOTE_URL = <<>> /\ last.f.store = "ok") =>
              last.out.send.stored = <<last.out.event>>

\* an event that a filter returned nothing for was POSTed
C8_Witness ==
    /\ FiltersDone
    /\ conf.FILTERS = <<"scrub", "none">>
    /\ Len(last.out.send.posts) = 1
    /\ Decode(last.out.send.posts[1].data)["server_name"] = "scrubbed"
    /\ Decode(last.out.send.posts[1].data)["message"] = <<"disk full">>

\* the most recent call is beyond the limit of its counter's lifetime
BeyondLimit ==
    /\ last.entry # "none"
    /\ GateEnabled(conf)
    /\ FaultFree(Latest)
    /\ Cardinality(Life(Latest)) > conf.THRASHING_LIMIT

\* C9: a call the gate suppresses runs no filter, does not coerce data,
\* does not call send() (no POST, nothing stored, nothing logged), raises
\* nothing and returns None; a call beyond the limit is such a call.
C9_SilentDrop ==
    (BeyondLimit \/ last.out.suppressed) =>
        /\ last.out.suppressed
        /\ last.out.steps = <<Step("defaults"), Step("checksum"), Step("gate")>>
        /\ ~last.out.sent
        /\ last.out.send = NoSend
        /\ last.out.raised = ""
        /\ last.out.returned = "None"
        /\ hist[Latest].suppressed /\ ~hist[Latest].passed

\* a suppressed call with unsanitized data, under registered filters and a
\* remote endpoint
C9_Witness ==
    /\ last.out.suppressed
    /\ conf.FILTERS # <<>>
    /\ conf.REMOTE_URL # <<>>
    /\ Has(last.out.kwargs, "data")
    /\ ~last.out.kwargs["data"].safe

\* C10 as claimed: whatever a collaborator does, no exception leaves an
\* entry point.
C10_NoExceptionEscapes == last.out.raised = ""

(***************************************************************************)
(* Faults of the counter store.                                            *)
(***************************************************************************)
\* cache.add raised during the most recent call
AddFailed ==
    /\ last.entry \in {"text", "record", "exception"}
    /\ GateEnabled(conf)
    /\ last.f.cache = "add_raises"

\* C11 as claimed: when cache.add raises, the occurrence counts as not
\* throttled: no error reaches the caller, the call is not suppressed and
\* the event goes on through the filters to send().
C11_AddFaultProceeds ==
    AddFailed =>
        /\ last.out.raised = ""
        /\ ~last.out.suppressed
        /\ last.out.sent

\* the calls whose cache.incr raised ValueError or KeyError on a counter
\* that cache.add had found present
IncrFailed ==
    {i \in 1..Len(hist) :
        GateEnabled(conf) /\ hist[i].fault = "incr_fails" /\ LifeStart(i) # i}

\* C12: when cache.incr fails (ValueError or KeyError), the count is read
\* as 0: the call is not suppressed and its event is sent, whatever the
\* limit and however many occurrences the counter holds; nothing is raised.
C12_IncrFaultProceeds ==
    /\ \A i \in IncrFailed : ~hist[i].suppressed /\ hist[i].passed
    /\ Latest \in IncrFailed =>
          /\ last.out.raised = ""
          /\ last.out.returned = "handle"
          /\ last.out.cache = cache

\* cache.incr failed for a call whose counter had already suppressed an
\* earlier call
C12_Witness ==
    /\ Latest \in IncrFailed
    /\ hist[Latest].passed
    /\ \E j \in Life(Latest) : j < Latest /\ hist[j].suppressed

(***************************************************************************)
(* The checksum on each entry point.                                       *)
(***************************************************************************)
\* the most recent call is an entry-point call given an explicit checksum
ChecksumSupplied ==
    /\ last.entry \in {"text", "record", "exception"}
    /\ Has(last.kw, "checksum")

\* C13 as claimed: on every entry point a checksum the caller supplies is
\* the one process() uses: in the key of the counter store and in the event
\* handed to send(); none is computed in its place.
C13_SuppliedChecksumKept ==
    ChecksumSupplied =>
        /\ last.out.checksum = last.kw["checksum"]
        /\ last.out.key[2] = last.kw["checksum"]
        /\ last.out.sent => last.out.event["checksum"] = last.kw["checksum"]

\* the kwargs the entry point of the most recent call would pass to
\* process() had the exception been of class cls, all else equal
KwargsForClass(cls) ==
    IF last.entry = "exception"
    THEN ExceptionKwargs(conf, [last.arg EXCEPT !.type = cls], last.kw)
    ELSE RecordKwargs(conf, [last.arg EXCEPT !.exc_info.type = cls], last.kw)

\* the most recent call carries an exception and no explicit checksum
CarriesException ==
    /\ \/ last.entry = "exception"
       \/ last.entry = "record" /\ HasExc(last.arg)
    /\ ~Has(last.kw, "checksum")

\* C14 as claimed: on create_from_exception and on create_from_record with
\* exc_info, the same occurrence with an exception of another class gets
\* another checksum.
C14_ClassChangesChecksum ==
    CarriesException =>
        last.out.checksum # Checksum(Defaults(conf, KwargsForClass("OSError")))

(***************************************************************************)
(* Which run of application frames the walk resolves to.  The walk goes    *)
(* from the outermost frame of the traceback to the innermost.             *)
(***************************************************************************)
\* the last maximal run of known-module frames: the deepest one
LastRun(ids) ==
    {i \in Known(ids) : \A k \in i..Max(Known(ids)) : k \in Known(ids)}

\* the finished walk was over a trace with two or more runs
SeveralRuns ==
    /\ walk.phase = "done"
    /\ Known(IdsOf(walk.frames)) # {}
    /\ FirstRun(IdsOf(walk.frames)) # LastRun(IdsOf(walk.frames))

\* C15 as claimed: over a trace with two or more runs of known-module
\* frames, the resolved view is a frame of the deepest (innermost) run.
C15_DeepestRun ==
    SeveralRuns =>
        walk.view \in {IdsOf(walk.frames)[i] : i \in LastRun(IdsOf(walk.frames))}

\* C15 amended: over a trace with two or more runs of known-module frames,
\* the resolved view is a frame of the outermost run, the first one walked;
\* the walk breaks on the frame that follows that run and looks at no frame
\* of a deeper run.
C15_OutermostRun ==
    SeveralRuns =>
        /\ walk.view \in {IdsOf(walk.frames)[i] : i \in FirstRun(IdsOf(walk.frames))}
        /\ walk.st.stopped
        /\ Len(Walked) = Max(FirstRun(IdsOf(walk.frames))) + 1

\* app frame, library frame, other app frame: the walk resolved to the
\* outer app frame and never reached the inner one
C15_Witness ==
    /\ walk.phase = "done"
    /\ walk.frames = <<AppG, LibF, AppH>>
    /\ walk.view = Ident(AppG)
    /\ walk.i = 3

(***************************************************************************)
(* The gate switched off.                                                  *)
(***************************************************************************)
\* conf.THRASHING_TIMEOUT or conf.THRASHING_LIMIT is unset or zero
GateOff == conf.THRASHING_TIMEOUT = 0 \/ conf.THRASHING_LIMIT = 0

\* C16: when THRASHING_TIMEOUT or THRASHING_LIMIT is unset or zero, no call
\* of process() is suppressed, however often a key occurs, and the counter
\* store is neither read nor written: no call consults the gate and the
\* store stays empty.
C16_DisabledGate ==
    GateOff =>
        /\ \A i \in 1..Len(hist) : ~hist[i].suppressed /\ hist[i].passed
        /\ cache = EmptyKw
        /\ ~last.out.gate
        /\ \A k \in 1..Len(last.out.steps) : last.out.steps[k] # Step("gate")

\* with a window but no limit, the same key occurred MaxCalls times at one
\* instant and every occurrence was sent
C16_Witness ==
    /\ conf.THRASHING_TIMEOUT = Window
    /\ conf.THRASHING_LIMIT = 0
    /\ Len(hist) = MaxCalls
    /\ \A i \in 1..Len(hist) :
          hist[i].key = hist[1].key /\ hist[i].time = hist[1].time /\ hist[i].passed

(***************************************************************************)
(* Where send() delivers.                                                  *)
(***************************************************************************)
\* C17: without a remote endpoint send() hands the event to the local
\* store once, POSTs nothing, logs nothing and returns the store's handle;
\* with one or more remote endpoints it never hands the event to the local
\* store, not even when every endpoint fails, and what it returns is None.
C17_DeliveryTarget ==
    last.out.sent =>
        /\ conf.REMOTE_URL = <<>> =>
              /\ Sd.stored = <<last.out.event>>
              /\ Sd.posts = <<>>
              /\ Sd.logs = <<>>
              /\ last.out.raised = ""
              /\ last.out.returned = "handle"
        /\ conf.REMOTE_URL # <<>> =>
              /\ Sd.stored = <<>>
              /\ Sd.posts # <<>>
              /\ last.out.returned # "handle"
              /\ last.out.raised = "" => last.out.returned = "None"

\* every one of MaxEndpoints endpoints failed and nothing was stored
C17_Witness ==
    /\ last.out.sent
    /\ Len(conf.REMOTE_URL) = MaxEndpoints
    /\ Failing(last.f.net) = 1..MaxEndpoints
    /\ Len(Sd.posts) = MaxEndpoints
    /\ Sd.stored = <<>>
    /\ last.out.returned = "None"

(***************************************************************************)
(* The order of the steps of process().                                    *)
(***************************************************************************)
\* the steps of a call that runs to the end, in the order of lines 24-53
ExpectedSteps ==
    <<Step("defaults"), Step("checksum")>>
    \o (IF GateEnabled(conf) THEN <<Step("gate")>> ELSE <<>>)
    \o [i \in 1..Len(conf.FILTERS) |-> [step |-> "filter", n |-> i]]
    \o (IF Has(last.out.kwargs, "data") THEN <<Step("transform")>> ELSE <<>>)
    \o <<Step("send")>>

IsPrefix(s, t) == Len(s) <= Len(t) /\ SubSeq(t, 1, Len(s)) = s

RECURSIVE Filtered(_, _)
\* the event after the first n registered filters, each given what the one
\* before it produced
Filtered(n, kw) ==
    IF n = 0 THEN kw
    ELSE LET r == FilterReturn(conf.FILTERS[n], Filtered(n - 1, kw))
         IN IF r.none THEN Filtered(n - 1, kw) ELSE r.kw

\* C18: in every call of process() the steps taken are an initial part of:
\* defaults, checksum, gate (when enabled), the filters in registered
\* order, coercion of data, send.  The key of the gate is made from the
\* event with defaults and checksum fixed; each filter gets the event the
\* one before it produced; data is coerced after the last filter; and a
\* call neither suppressed nor ended by an exception calls send() once,
\* last, with that event.
C18_PipelineOrder ==
    last.entry \in {"text", "record", "exception"} =>
        /\ IsPrefix(last.out.steps, ExpectedSteps)
        /\ Has(last.out.kwargs, "level") /\ Has(last.out.kwargs, "server_name")
        /\ last.out.key = CacheKey(last.out.kwargs, last.out.checksum)
        /\ last.out.sent <=> last.out.steps = ExpectedSteps
        /\ (~last.out.suppressed /\ last.out.raised = "") => last.out.sent
        /\ last.out.sent =>
              /\ last.out.event = Coerce(Filtered(Len(conf.FILTERS), last.out.kwargs))
              /\ Has(last.out.event, "data") => last.out.event["data"].safe
              /\ Cardinality({k \in 1..Len(last.out.steps) :
                                 last.out.steps[k] = Step("send")}) = 1
              /\ last.out.steps[Len(last.out.steps)] = Step("send")

\* a call that took every step: gate, two filters of which the second saw
\* what the first wrote, coercion of data, send
C18_Witness ==
    /\ last.out.sent
    /\ last.out.gate
    /\ conf.FILTERS = <<"scrub", "relay">>
    /\ Len(last.out.steps) = 7
    /\ last.out.event["site"] = "scrubbed"
    /\ last.out.event["data"].safe
    /\ ~last.out.kwargs["data"].safe

(***************************************************************************)
(* The gate under concurrent calls.                                        *)
(***************************************************************************)
Done == {p \in DOMAIN procs : procs[p].pc = "done"}

Passed == {p \in Done : procs[p].passed}

Registered == {p \in Done : procs[p].added}

\* the calls whose cache.incr found the counter gone: cache.add had met a
\* live counter, which expired before the call's cache.incr
Overtaken == {p \in Done : ~procs[p].added /\ ~procs[p].incr_ok}

\* every call is over and no counter any of them met has expired yet
QuietRun ==
    /\ procs # NoProcs
    /\ Done = DOMAIN procs
    /\ \A p \in DOMAIN procs : now < procs[p].expires

\* C19: of K concurrent calls of process() with one key, cache.add and
\* cache.incr atomic, no fault and no expiry from the first call to the
\* last, exactly min(K, THRASHING_LIMIT) are not suppressed, whatever the
\* interleaving.  With expiry allowed, the calls passed beyond
\* THRASHING_LIMIT per registered counter are all calls whose counter
\* expired between their failed cache.add and their cache.incr.
C19_ConcurrentGate ==
    /\ QuietRun =>
          Cardinality(Passed) = Min({Cardinality(DOMAIN procs), conf.THRASHING_LIMIT})
    /\ Cardinality(Passed \ Overtaken) <= conf.THRASHING_LIMIT * Cardinality(Registered)
    /\ \A p \in Overtaken :
          /\ procs[p].passed
          /\ procs[p].t_add < procs[p].expires
          /\ procs[p].expires <= procs[p].t_incr

\* MaxThreads calls at one instant, more than the limit: the call that
\* registered the counter was not the first thread, and the first thread
\* was suppressed
C19_Witness ==
    /\ QuietRun
    /\ Cardinality(DOMAIN procs) = MaxThreads
    /\ conf.THRASHING_LIMIT = MaxLimit
    /\ procs[MaxThreads].added
    /\ procs[1].suppressed
    /\ Cardinality(Passed) = MaxLimit

(***************************************************************************)
(* Suppression ends.                                                       *)
(***************************************************************************)
\* a step leaves the expiry of every live counter as it is: cache.incr does
\* not renew it
ExpiryKept ==
    \A k \in DOMAIN cache : Live(cache, k, now) => cache'[k].expires = cache[k].expires

\* a step that registers a counter is the cache.add of a call that is not
\* suppressed: the occurrence that opens a window passes the gate
RegistrationPasses ==
    \A k \in DOMAIN cache' :
        (k \notin DOMAIN cache \/ cache'[k].expires # cache[k].expires) =>
            /\ cache'[k] = [count |-> 1, expires |-> now + conf.THRASHING_TIMEOUT]
            /\ \E p \in DOMAIN procs :
                  /\ procs[p].pc = "add"
                  /\ procs'[p].pc = "done"
                  /\ procs'[p].added /\ procs'[p].passed /\ ~procs'[p].suppressed

\* the counter of the key is live and expires at e
LiveUntil(e) == Live(cache, ConcKey, now) /\ cache[ConcKey].expires = e

\* a call passed the gate at e or later
PassedSince(e) ==
    \E p \in Passed : (IF procs[p].added THEN procs[p].t_add ELSE procs[p].t_incr) >= e

\* C20: the expiry of a counter is set when cache.add registers it and no
\* later increment, by a suppressed call or any other, moves it; the call
\* that registers a counter is not suppressed, so every window has an
\* occurrence that passes; and under an unending stream of occurrences and
\* a fair clock, a counter that is live until e (within the clock's range)
\* is followed by an occurrence of its key, at e or later, that passes.
C20_SuppressionEnds ==
    /\ [][ExpiryKept /\ RegistrationPasses]_vars
    /\ \A e \in 1..MaxTime : LiveUntil(e) ~> PassedSince(e)

\* suppressed calls drove a counter beyond the limit by two or more, the
\* counter expired at the time its registration set, and the call whose
\* cache.incr came after that was not suppressed
C20_Witness ==
    /\ ConcKey \in DOMAIN cache
    /\ cache[ConcKey].count >= conf.THRASHING_LIMIT + 2
    /\ cache[ConcKey].expires = conf.THRASHING_TIMEOUT
    /\ Overtaken # {}
    /\ PassedSince(cache[ConcKey].expires)

====
